---- MODULE Spec2Model ----
(***************************************************************************)
(* A model of src/bot.py: the in-memory DataCache (habits, stats,          *)
(* last_sync), the PostgreSQL store it is synchronised with, the           *)
(* background synchronisation thread, the start-up load, and the telebot   *)
(* handlers that run on the worker threads, and the functions the screens  *)
(* are built with (calc_streaks, is_week_gold, day_status_emoji).          *)
(*                                                                         *)
(* Granularity.  _sync_to_db and load_from_db take no lock, so they are    *)
(* modelled statement by statement (one step per store call, per loop      *)
(* iteration and per assignment of self.habits / self.stats).  The         *)
(* accessors get_stats, get_habits_full, add_habit and update_stat run     *)
(* their one-statement bodies under self.lock and are one step each.       *)
(*                                                                         *)
(* Dates.  A "YYYYMMDD" string is modelled by the number YYYYMMDD, which   *)
(* orders as the calendar does.  Habit ids are the decimal strings the     *)
(* code builds with str().                                                 *)
(*                                                                         *)
(* Time.  The code reads last_sync only in the expression                  *)
(* time.time() - self.last_sync >= self.sync_interval (line 131), so the   *)
(* model keeps since_sync = time.time() - self.last_sync, saturated at     *)
(* sync_interval.  last_sync = 0 at construction (line 114) is an epoch    *)
(* timestamp far in the past: since_sync starts saturated.                 *)
(***************************************************************************)
EXTENDS Integers, FiniteSets, Sequences, TLC

\* ------------------------------------------------------------- bounds
\* Habits a run creates before the add-habit flow is no longer started.
MaxHabits == 2
\* Days of the calendar whose day menu the user opens.
NumDays == 1
\* Cache- or store-changing chat events handled in a run of Spec, of
\* SpecStats, of SpecPool and of FairSpec.
MaxEvents == 1
MaxEventsStats == 2
MaxEventsPool == 2
MaxEventsFair == 1
\* Seconds the clock advances in one step.
Quantum == 1800
\* Days of the week of 2025-09-29 whose buckets the screen inputs vary, and
\* habits in the mappings the screen functions are applied to.
ScreenDays == 4
ScreenHabits == 2
\* Changes a caller makes to a mapping an accessor returned.
MaxMutations == 2

\* ------------------------------------------------- program constants
START_DATE == 20250927
sync_interval == 3600

\* datetime.date.today() during the run.
Today == START_DATE + 1

\* telebot.TeleBot(TOKEN) dispatches handlers on its worker threads.
Workers == {"w1", "w2"}
OneWorker == {"w1"}
Threads == {"main", "bg"} \cup Workers

\* ------------------------------------------------------------- inputs
Names == {"a", "b"}
Days == {Today - i : i \in 0..(NumDays - 1)}
\* What follows the name in an add-habit message, as split("/") cuts it:
\* no part ("name"), one part ("name/27.9.2025", "name/01.13.2025") or more
\* ("name/01/13/2025").  A part is the numbers its dots separate.
DateTexts == {<<>>, <<<<27, 9, 2025>>>>, <<<<1, 13, 2025>>>>,
              <<<<1>>, <<13>>, <<2025>>>>}

\* str(n) for the ids the code assigns.
IdStr(n) == CASE n = 1 -> "1" [] n = 2 -> "2" [] n = 3 -> "3"
              [] n = 4 -> "4" [] n = 5 -> "5" [] OTHER -> "6"

\* ------------------------------------------------------------ helpers
EmptyMap == <<>>
Get(f, k, dflt) == IF k \in DOMAIN f THEN f[k] ELSE dflt
Put(f, k, v) == [x \in DOMAIN f \cup {k} |-> IF x = k THEN v ELSE f[x]]
Min(a, b) == IF a <= b THEN a ELSE b

\* Iteration order.  A dict iterates in insertion order and the store returns
\* rows in the order it holds them; the model takes the keys in the order
\* the ids and dates were created, which is increasing.
IdNum(id) == CHOOSE i \in 1..6 : IdStr(i) = id
FirstId(K) == CHOOSE k \in K : \A x \in K : IdNum(k) <= IdNum(x)
FirstDate(D) == CHOOSE d \in D : \A x \in D : d <= x
FirstHabitRow(R) == CHOOSE r \in R : \A q \in R : IdNum(r[1]) <= IdNum(q[1])
FirstStatRow(R) ==
  CHOOSE r \in R : \A q \in R :
    r[1] < q[1] \/ (r[1] = q[1] /\ IdNum(r[2]) <= IdNum(q[2]))

\* datetime.datetime.strptime(text, "%d.%m.%Y") succeeds.
IsLeap(y) == (y % 4 = 0 /\ y % 100 # 0) \/ y % 400 = 0
DaysIn(m, y) == IF m = 2 THEN (IF IsLeap(y) THEN 29 ELSE 28)
                ELSE IF m \in {4, 6, 9, 11} THEN 30 ELSE 31
ValidDate(t) == /\ Len(t) = 3
                /\ t[3] \in 1..9999
                /\ t[2] \in 1..12
                /\ t[1] \in 1..DaysIn(t[2], t[3])
\* parsed_date.strftime("%Y%m%d")
FormatDate(t) == t[3] * 10000 + t[2] * 100 + t[1]

\* The rows _sync_to_db inserts for a cache content, and the mappings
\* load_from_db builds from rows.
HabitRows(H) == {<<id, H[id].name, H[id].start_date>> : id \in DOMAIN H}
StatRows(S) == UNION {{<<d, h, S[d][h]>> : h \in DOMAIN S[d]} : d \in DOMAIN S}
HabitRow(r) == [name |-> r[2], start_date |-> r[3]]

VARIABLES
  habits,       \* DataCache.habits: id -> [name, start_date]
  stats,        \* DataCache.stats: date -> (id -> BOOLEAN)
  since_sync,   \* time.time() - DataCache.last_sync, saturated
  db,           \* the store's committed tables: [habits, stats], sets of rows
  user_states,  \* users in state "waiting_habit"
  buttons,      \* toggle buttons <<date, id>> of the day menus in the chat
  pc,           \* each thread's position
  ev,           \* the chat event a worker is handling
  data,         \* a handler's local `data` (a get_stats() snapshot)
  hf,           \* a handler's local `habits_full`
  new_id,       \* handle_text's local new_id
  tx,           \* a sync's open transaction: the tables as it sees them
  it,           \* a sync's dict iterators
  rows,         \* a load's fetched rows still to insert
  outcome,      \* what the last _sync_to_db / load_from_db of a thread did
  reply,        \* the reply a command handler sent
  nev,          \* cache-changing chat events handled so far
  \* History variables: they record what the program did and steer nothing.
  pre,          \* of a running load: (habits, stats) when it was called
  seen,         \* of a running sync: the (habits, stats) there were since its call
  rt,           \* a sync and the load that follows it with no mutation between
  tg,           \* the toggles applied in a row to one (date, id)
  \* The screen functions' arguments and result, in SpecScreen.
  scr,          \* [today, data, habits_full, fn, date, out]
  \* The dict objects behind the cache and behind an accessor's result, in
  \* SpecAlias.
  heap          \* [dicts, habits, stats, ret, kind, muts]

cacheVars == <<habits, stats, since_sync>>
envVars == <<db, user_states, buttons, nev>>
localVars == <<pc, ev, data, hf, new_id, tx, it, rows, outcome, reply>>
vars == <<habits, stats, since_sync, db, user_states, buttons,
          pc, ev, data, hf, new_id, tx, it, rows, outcome, reply, nev,
          pre, seen, rt, tg, scr, heap>>

User == "u"
NoEv == [kind |-> "none", date |-> 0, hid |-> "", name |-> "", dtxt |-> <<>>]
NoTx == [habits |-> {}, stats |-> {}]
NoIt == [view |-> "live", froz |-> EmptyMap, left |-> {}, used |-> 0,
         d |-> 0, ileft |-> {}, iused |-> 0, row |-> <<>>]
NoSnap == <<>>
NoRt == [phase |-> "none", by |-> ""]
NoTg == [n |-> 0, date |-> 0, hid |-> "", before |-> EmptyMap]
NoHeap == [dicts |-> <<>>, habits |-> 0, stats |-> 0, ret |-> 0,
           kind |-> "none", muts |-> 0]
NoScr == [today |-> Today, data |-> EmptyMap, habits_full |-> EmptyMap,
          fn |-> "none", date |-> 0, out |-> <<>>]

\* What an earlier run of the bot can have left behind: the store's tables as
\* its last sync wrote them, and in the chat a day menu for these habits.
StoredHabits == {<<"1", "a", START_DATE>>, <<"2", "b", START_DATE>>}
StoredStats == {<<Today, "1", FALSE>>, <<Today, "2", FALSE>>}
EarlierRuns ==
  { [db |-> [habits |-> {}, stats |-> {}], buttons |-> {}],
    [db |-> [habits |-> StoredHabits, stats |-> StoredStats],
     buttons |-> {<<Today, r[1]>> : r \in StoredHabits}] }

\* The handlers' locals and the history before any handler has run.
NothingHandled ==
  /\ user_states = {}
  /\ ev = [t \in Threads |-> NoEv]
  /\ data = [t \in Threads |-> EmptyMap]
  /\ hf = [t \in Threads |-> EmptyMap]
  /\ new_id = [t \in Threads |-> ""]
  /\ tx = [t \in Threads |-> NoTx]
  /\ it = [t \in Threads |-> NoIt]
  /\ rows = [t \in Threads |-> {}]
  /\ reply = [t \in Threads |-> "none"]
  /\ nev = 0
  /\ seen = [t \in Threads |-> {}]
  /\ rt = NoRt
  /\ tg = NoTg

Construction ==
  /\ habits = EmptyMap
  /\ stats = EmptyMap
  /\ since_sync = sync_interval
  /\ \E run \in EarlierRuns : db = run.db /\ buttons = run.buttons
  /\ pc = [t \in Threads |-> CASE t = "main" -> "l_connect"
                               [] t = "bg" -> "sleep"
                               [] OTHER -> "idle"]
  /\ outcome = [t \in Threads |-> "none"]
  /\ pre = [t \in Threads |-> IF t = "main" THEN <<EmptyMap, EmptyMap>> ELSE NoSnap]
  /\ NothingHandled

Init ==
  /\ Construction
  /\ scr = NoScr
  /\ heap = NoHeap

\* A store call returns (TRUE) or psycopg2 raises because the store cannot be
\* reached (FALSE).
StoreAnswers == BOOLEAN

\* ------------------------------------------------ returning to the caller
\* Where a thread continues when its load_from_db / _sync_to_db returns.
AfterLoad(t) == IF t = "main" THEN "polling" ELSE "rl_reply"
AfterSync(t) == IF t = "bg" THEN "sleep" ELSE "up_reply"

\* ----------------------------------------------------------------- history
\* The positions inside load_from_db and inside _sync_to_db.
LoadPcs == {"l_connect", "l_selH", "l_clrH", "l_rowH", "l_clrS", "l_rowS"}
SyncPcs == {"s_connect", "s_delH", "s_insH", "s_delS", "s_insS", "s_commit",
            "s_stamp"}

\* What a step does, read off the program variables before and after it.
StartsSync(t) == pc[t] \notin SyncPcs /\ pc'[t] \in SyncPcs
StartsLoad(t) == pc[t] \notin LoadPcs /\ pc'[t] \in LoadPcs
ReturnsFromSync(t) == pc[t] \in SyncPcs /\ pc'[t] \notin SyncPcs
ReturnsFromLoad(t) == pc[t] \in LoadPcs /\ pc'[t] \notin LoadPcs
Commits(t) == pc[t] = "s_commit" /\ pc'[t] = "s_stamp"
Toggles(w) == pc[w] = "tg_update" /\ pc'[w] = "tg_data"
Adds(w) == pc[w] = "a_add" /\ pc'[w] = "a_pop"
StepOf(t) == pc'[t] # pc[t] \/ rows'[t] # rows[t]
CacheChanges == habits' # habits \/ stats' # stats
OthersAtStore(t) == \E s \in Threads \ {t} : pc[s] \in LoadPcs \cup SyncPcs

PreNext ==
  [t \in Threads |-> IF pc'[t] \notin LoadPcs THEN NoSnap
                     ELSE IF pc[t] \in LoadPcs THEN pre[t]
                     ELSE <<habits, stats>>]

\* NoSnap in seen[t] marks a sync during which a load_from_db was running.
SeenNext ==
  [t \in Threads |->
     IF pc'[t] \notin SyncPcs \ {"s_stamp"} THEN {}
     ELSE (IF pc[t] \in SyncPcs THEN seen[t] ELSE {})
          \cup {<<habits', stats'>>}
          \cup (IF \E s \in Threads : pc'[s] \in LoadPcs THEN {NoSnap} ELSE {})]

\* rt follows one _sync_to_db call that runs while no other thread is at the
\* store, and then one load_from_db call: "syncing" until the sync returns,
\* "synced" until a load is called, "loading" until it returns.  A change
\* of the cache by another thread, a store that cannot be reached and
\* another sync or load end the observation.
RtNext ==
  IF \E t \in Threads : StartsSync(t)
  THEN LET t == CHOOSE t \in Threads : StartsSync(t) IN
       IF OthersAtStore(t) THEN NoRt ELSE [phase |-> "syncing", by |-> t]
  ELSE IF \E t \in Threads : StartsLoad(t)
  THEN LET t == CHOOSE t \in Threads : StartsLoad(t) IN
       IF rt.phase = "synced" /\ ~OthersAtStore(t)
       THEN [phase |-> "loading", by |-> t] ELSE NoRt
  ELSE CASE rt.phase = "syncing" ->
              IF CacheChanges \/ outcome'[rt.by] = "failed_store" THEN NoRt
              ELSE IF ReturnsFromSync(rt.by) THEN [phase |-> "synced", by |-> ""]
              ELSE rt
         [] rt.phase = "synced" -> IF CacheChanges THEN NoRt ELSE rt
         [] rt.phase = "loading" ->
              IF (CacheChanges /\ ~StepOf(rt.by)) \/ ReturnsFromLoad(rt.by)
              THEN NoRt ELSE rt
         [] OTHER -> rt

\* tg counts the toggles of one (date, id) that follow each other with no
\* other change of the stats between them, and keeps the stats from before
\* the first.  It starts again when a handler is dispatched after the second.
TgNext ==
  IF \E w \in Workers : Toggles(w)
  THEN LET w == CHOOSE w \in Workers : Toggles(w) IN
       IF tg.n = 1 /\ tg.date = ev[w].date /\ tg.hid = ev[w].hid
       THEN [tg EXCEPT !.n = 2]
       ELSE [n |-> 1, date |-> ev[w].date, hid |-> ev[w].hid, before |-> stats]
  ELSE IF stats' # stats THEN NoTg
  ELSE IF tg.n = 2 /\ \E w \in Workers : pc[w] = "idle" /\ pc'[w] # "idle" THEN NoTg
  ELSE tg

History ==
  /\ pre' = PreNext
  /\ seen' = SeenNext
  /\ rt' = RtNext
  /\ tg' = TgNext
  /\ scr' = scr
  /\ heap' = heap

\* ------------------------------------------------------------ load_from_db
HabitIterating(s) == pc[s] = "s_insH"
StatIterating(s) == pc[s] = "s_insS"

\* `self.habits = {}` / `self.stats = {}` bind a new dict: an iterator a
\* running sync holds keeps walking the old dict object, which nothing
\* changes any more.
DetachHabits ==
  [s \in Threads |-> IF HabitIterating(s) /\ it[s].view = "live"
                     THEN [it[s] EXCEPT !.view = "frozen", !.froz = habits]
                     ELSE it[s]]
DetachStats ==
  [s \in Threads |-> IF StatIterating(s) /\ it[s].view = "live"
                     THEN [it[s] EXCEPT !.view = "frozen", !.froz = stats]
                     ELSE it[s]]

\* except Exception: the error is logged and load_from_db returns.
LoadFails(t) ==
  /\ pc' = [pc EXCEPT ![t] = AfterLoad(t)]
  /\ rows' = [rows EXCEPT ![t] = {}]
  /\ outcome' = [outcome EXCEPT ![t] = "load_failed"]

\* psycopg2.connect(**DB_CONFIG)
LoadConnect(t) ==
  /\ pc[t] = "l_connect"
  /\ \E store_up \in StoreAnswers :
     IF store_up
     THEN /\ pc' = [pc EXCEPT ![t] = "l_selH"]
          /\ outcome' = [outcome EXCEPT ![t] = "none"]
          /\ UNCHANGED rows
     ELSE LoadFails(t)
  /\ UNCHANGED <<cacheVars, envVars, ev, data, hf, new_id, tx, it, reply>>
  /\ History

\* cursor.execute("SELECT id, name, start_date FROM habits")
LoadSelectHabits(t) ==
  /\ pc[t] = "l_selH"
  /\ \E store_up \in StoreAnswers :
     IF store_up
     THEN /\ pc' = [pc EXCEPT ![t] = "l_clrH"]
          /\ rows' = [rows EXCEPT ![t] = db.habits]
          /\ UNCHANGED outcome
     ELSE LoadFails(t)
  /\ UNCHANGED <<cacheVars, envVars, ev, data, hf, new_id, tx, it, reply>>
  /\ History

\* self.habits = {}
LoadClearHabits(t) ==
  /\ pc[t] = "l_clrH"
  /\ habits' = EmptyMap
  /\ it' = DetachHabits
  /\ pc' = [pc EXCEPT ![t] = "l_rowH"]
  /\ UNCHANGED <<stats, since_sync, envVars, ev, data, hf, new_id, tx, rows,
                 outcome, reply>>
  /\ History

\* self.habits[str(habit_id)] = {"name": name, "start_date": start_date}
LoadHabitRow(t) ==
  /\ pc[t] = "l_rowH"
  /\ rows[t] # {}
  /\ \E r \in {FirstHabitRow(rows[t])} :
       /\ habits' = Put(habits, r[1], HabitRow(r))
       /\ rows' = [rows EXCEPT ![t] = @ \ {r}]
  /\ UNCHANGED <<stats, since_sync, envVars, pc, ev, data, hf, new_id, tx, it,
                 outcome, reply>>
  /\ History

\* The habits loop is over: cursor.execute("SELECT date, habit_id, status FROM stats")
LoadSelectStats(t) ==
  /\ pc[t] = "l_rowH"
  /\ rows[t] = {}
  /\ \E store_up \in StoreAnswers :
     IF store_up
     THEN /\ pc' = [pc EXCEPT ![t] = "l_clrS"]
          /\ rows' = [rows EXCEPT ![t] = db.stats]
          /\ UNCHANGED outcome
     ELSE LoadFails(t)
  /\ UNCHANGED <<cacheVars, envVars, ev, data, hf, new_id, tx, it, reply>>
  /\ History

\* self.stats = {}
LoadClearStats(t) ==
  /\ pc[t] = "l_clrS"
  /\ stats' = EmptyMap
  /\ it' = DetachStats
  /\ pc' = [pc EXCEPT ![t] = "l_rowS"]
  /\ UNCHANGED <<habits, since_sync, envVars, ev, data, hf, new_id, tx, rows,
                 outcome, reply>>
  /\ History

\* if date not in self.stats: self.stats[date] = {}
\* self.stats[date][str(habit_id)] = bool(status)
LoadStatRow(t) ==
  /\ pc[t] = "l_rowS"
  /\ rows[t] # {}
  /\ \E r \in {FirstStatRow(rows[t])} :
       /\ stats' = Put(stats, r[1], Put(Get(stats, r[1], EmptyMap), r[2], r[3]))
       /\ rows' = [rows EXCEPT ![t] = @ \ {r}]
  /\ UNCHANGED <<habits, since_sync, envVars, pc, ev, data, hf, new_id, tx, it,
                 outcome, reply>>
  /\ History

\* The stats loop is over: the rows are logged and load_from_db returns.
LoadDone(t) ==
  /\ pc[t] = "l_rowS"
  /\ rows[t] = {}
  /\ pc' = [pc EXCEPT ![t] = AfterLoad(t)]
  /\ outcome' = [outcome EXCEPT ![t] = "loaded"]
  /\ UNCHANGED <<cacheVars, envVars, ev, data, hf, new_id, tx, it, rows, reply>>
  /\ History

LoadStep(t) ==
  \/ LoadConnect(t)
  \/ LoadSelectHabits(t)
  \/ LoadClearHabits(t)
  \/ LoadHabitRow(t)
  \/ LoadSelectStats(t)
  \/ LoadClearStats(t)
  \/ LoadStatRow(t)
  \/ LoadDone(t)

\* ------------------------------------------------------------ _sync_to_db
\* The dict an iterator of thread t walks.
HabitsView(t) == IF it[t].view = "live" THEN habits ELSE it[t].froz
StatsView(t) == IF it[t].view = "live" THEN stats ELSE it[t].froz

\* next() of `for habit_id, habit_data in self.habits.items()`: the iterator
\* raises RuntimeError when the dict changed size, ends when no key is left,
\* and else yields the next key in the dict's order; the loop body hands its
\* row to cursor.execute.
NextHabit(H, itr) ==
  IF Cardinality(DOMAIN H) # itr.used THEN {[k |-> "error"]}
  ELSE IF itr.left = {} THEN {[k |-> "done"]}
  ELSE {[k |-> "row",
         it |-> [itr EXCEPT !.left = @ \ {id},
                            !.row = <<id, H[id].name, H[id].start_date>>]]
        : id \in {FirstId(itr.left)}}

\* next() of `for date, habits_data in self.stats.items()` followed by the
\* first next() of `for habit_id, status in habits_data.items()`.
NextDate(S, itr) ==
  IF Cardinality(DOMAIN S) # itr.used THEN {[k |-> "error"]}
  ELSE LET C == {d \in itr.left : DOMAIN S[d] # {}} IN
       IF C = {} THEN {[k |-> "done"]}
       ELSE UNION {{[k |-> "row",
                     it |-> [itr EXCEPT !.left = @ \ {d}, !.d = d,
                                        !.ileft = DOMAIN S[d] \ {h},
                                        !.iused = Cardinality(DOMAIN S[d]),
                                        !.row = <<d, h, S[d][h]>>]]
                    : h \in {FirstId(DOMAIN S[d])}} : d \in {FirstDate(C)}}

\* next() of the inner loop, falling through to the outer loop at its end.
NextStat(S, itr) ==
  IF Cardinality(DOMAIN S[itr.d]) # itr.iused THEN {[k |-> "error"]}
  ELSE IF itr.ileft = {} THEN NextDate(S, itr)
  ELSE {[k |-> "row",
         it |-> [itr EXCEPT !.ileft = @ \ {h}, !.row = <<itr.d, h, S[itr.d][h]>>]]
        : h \in {FirstId(itr.ileft)}}

\* Two ways to get the failure path wrong: the writes of the failed
\* transaction stay in the store; the failure ends the background loop.
SyncFailsKeepsWrites(t, why) ==
  /\ pc' = [pc EXCEPT ![t] = AfterSync(t)]
  /\ db' = tx[t]
  /\ tx' = [tx EXCEPT ![t] = NoTx]
  /\ it' = [it EXCEPT ![t] = NoIt]
  /\ outcome' = [outcome EXCEPT ![t] = why]
SyncFailsEndsLoop(t, why) ==
  /\ pc' = [pc EXCEPT ![t] = IF t = "bg" THEN "stopped" ELSE AfterSync(t)]
  /\ db' = db
  /\ tx' = [tx EXCEPT ![t] = NoTx]
  /\ it' = [it EXCEPT ![t] = NoIt]
  /\ outcome' = [outcome EXCEPT ![t] = why]

\* except Exception: the connection's `with` block rolls the transaction
\* back, the error is logged and _sync_to_db returns.
SyncFails(t, why) ==
  /\ pc' = [pc EXCEPT ![t] = AfterSync(t)]
  /\ db' = db
  /\ tx' = [tx EXCEPT ![t] = NoTx]
  /\ it' = [it EXCEPT ![t] = NoIt]
  /\ outcome' = [outcome EXCEPT ![t] = why]

\* psycopg2.connect(**DB_CONFIG)
SyncConnect(t) ==
  /\ pc[t] = "s_connect"
  /\ \E store_up \in StoreAnswers :
     IF store_up
     THEN /\ pc' = [pc EXCEPT ![t] = "s_delH"]
          /\ outcome' = [outcome EXCEPT ![t] = "none"]
          /\ UNCHANGED <<db, tx, it>>
     ELSE SyncFails(t, "failed_store")
  /\ UNCHANGED <<cacheVars, user_states, buttons, nev,
                 ev, data, hf, new_id, rows, reply>>
  /\ History

\* cursor.execute("DELETE FROM habits"): stats rows go with their habits
\* (ON DELETE CASCADE).  Then the habits loop starts: its next(), and either
\* the first INSERT INTO habits or DELETE FROM stats is issued.
SyncDeleteHabits(t) ==
  /\ pc[t] = "s_delH"
  /\ \E store_up \in StoreAnswers :
     IF store_up
     THEN \E n \in NextHabit(habits, [NoIt EXCEPT !.left = DOMAIN habits,
                                                  !.used = Cardinality(DOMAIN habits)]) :
            /\ tx' = [tx EXCEPT ![t] = [habits |-> {}, stats |-> {}]]
            /\ IF n.k = "done"
               THEN /\ pc' = [pc EXCEPT ![t] = "s_delS"]
                    /\ UNCHANGED it
               ELSE /\ pc' = [pc EXCEPT ![t] = "s_insH"]
                    /\ it' = [it EXCEPT ![t] = n.it]
            /\ UNCHANGED <<db, outcome>>
     ELSE SyncFails(t, "failed_store")
  /\ UNCHANGED <<cacheVars, user_states, buttons, nev,
                 ev, data, hf, new_id, rows, reply>>
  /\ History

\* cursor.execute("INSERT INTO habits ..."), then the loop goes on.
SyncInsertHabit(t) ==
  /\ pc[t] = "s_insH"
  /\ \E store_up \in StoreAnswers :
     IF store_up
     THEN \E n \in NextHabit(HabitsView(t), it[t]) :
            CASE n.k = "error" -> SyncFails(t, "failed_runtime")
              [] n.k = "done" ->
                   /\ tx' = [tx EXCEPT ![t].habits = @ \cup {it[t].row}]
                   /\ pc' = [pc EXCEPT ![t] = "s_delS"]
                   /\ it' = [it EXCEPT ![t] = NoIt]
                   /\ UNCHANGED <<db, outcome>>
              [] OTHER ->
                   /\ tx' = [tx EXCEPT ![t].habits = @ \cup {it[t].row}]
                   /\ it' = [it EXCEPT ![t] = n.it]
                   /\ UNCHANGED <<db, outcome, pc>>
     ELSE SyncFails(t, "failed_store")
  /\ UNCHANGED <<cacheVars, user_states, buttons, nev,
                 ev, data, hf, new_id, rows, reply>>
  /\ History

\* What follows a store call of the stats phase.
ContinueStats(t, nexts) ==
  \E n \in nexts :
    CASE n.k = "error" -> SyncFails(t, "failed_runtime")
      [] n.k = "done" -> /\ pc' = [pc EXCEPT ![t] = "s_commit"]
                         /\ it' = [it EXCEPT ![t] = NoIt]
                         /\ UNCHANGED <<db, outcome>>
      [] OTHER -> /\ pc' = [pc EXCEPT ![t] = "s_insS"]
                  /\ it' = [it EXCEPT ![t] = n.it]
                  /\ UNCHANGED <<db, outcome>>

\* cursor.execute("DELETE FROM stats"), then the stats loops start.
SyncDeleteStats(t) ==
  /\ pc[t] = "s_delS"
  /\ \E store_up \in StoreAnswers :
     IF store_up
     THEN /\ tx' = [tx EXCEPT ![t].stats = {}]
          /\ ContinueStats(t, NextDate(stats, [NoIt EXCEPT !.left = DOMAIN stats,
                                                    !.used = Cardinality(DOMAIN stats)]))
     ELSE SyncFails(t, "failed_store")
  /\ UNCHANGED <<cacheVars, user_states, buttons, nev,
                 ev, data, hf, new_id, rows, reply>>
  /\ History

\* fk_stats_habit: FOREIGN KEY (habit_id) REFERENCES habits(id)
ForeignKeyHolds(t, row) == \E h \in tx[t].habits : h[1] = row[2]

\* cursor.execute("INSERT INTO stats ..."), then the loops go on.
SyncInsertStat(t) ==
  /\ pc[t] = "s_insS"
  /\ \E store_up \in StoreAnswers :
     IF ~store_up THEN SyncFails(t, "failed_store")
     ELSE IF ~ForeignKeyHolds(t, it[t].row) THEN SyncFails(t, "failed_fk")
     ELSE \E n \in NextStat(StatsView(t), it[t]) :
            CASE n.k = "error" -> SyncFails(t, "failed_runtime")
              [] n.k = "done" ->
                   /\ tx' = [tx EXCEPT ![t].stats = @ \cup {it[t].row}]
                   /\ pc' = [pc EXCEPT ![t] = "s_commit"]
                   /\ it' = [it EXCEPT ![t] = NoIt]
                   /\ UNCHANGED <<db, outcome>>
              [] OTHER ->
                   /\ tx' = [tx EXCEPT ![t].stats = @ \cup {it[t].row}]
                   /\ it' = [it EXCEPT ![t] = n.it]
                   /\ UNCHANGED <<db, outcome, pc>>
  /\ UNCHANGED <<cacheVars, user_states, buttons, nev,
                 ev, data, hf, new_id, rows, reply>>
  /\ History

\* conn.commit()
SyncCommit(t) ==
  /\ pc[t] = "s_commit"
  /\ \E store_up \in StoreAnswers :
     IF store_up
     THEN /\ db' = tx[t]
          /\ tx' = [tx EXCEPT ![t] = NoTx]
          /\ pc' = [pc EXCEPT ![t] = "s_stamp"]
          /\ UNCHANGED <<it, outcome>>
     ELSE SyncFails(t, "failed_store")
  /\ UNCHANGED <<cacheVars, user_states, buttons, nev,
                 ev, data, hf, new_id, rows, reply>>
  /\ History

\* self.last_sync = time.time(); the sync is logged and _sync_to_db returns.
SyncStamp(t) ==
  /\ pc[t] = "s_stamp"
  /\ since_sync' = 0
  /\ pc' = [pc EXCEPT ![t] = AfterSync(t)]
  /\ outcome' = [outcome EXCEPT ![t] = "committed"]
  /\ UNCHANGED <<habits, stats, envVars, ev, data, hf, new_id, tx, it, rows, reply>>
  /\ History

SyncStep(t) ==
  \/ SyncConnect(t)
  \/ SyncDeleteHabits(t)
  \/ SyncInsertHabit(t)
  \/ SyncDeleteStats(t)
  \/ SyncInsertStat(t)
  \/ SyncCommit(t)
  \/ SyncStamp(t)

\* ------------------------------------------------------- _background_sync
\* A loop that syncs at every wake, whatever last_sync is.
SyncAlwaysDue == TRUE

\* time.sleep(60) returns and the loop tests
\* time.time() - self.last_sync >= self.sync_interval.
SyncDue == since_sync >= sync_interval

BgWake ==
  /\ pc["bg"] = "sleep"
  /\ SyncDue
  /\ pc' = [pc EXCEPT !["bg"] = "s_connect"]
  /\ UNCHANGED <<cacheVars, db, user_states, buttons, nev,
                 ev, data, hf, new_id, tx, it, rows, outcome, reply>>
  /\ History

\* ------------------------------------------------------------ environment
\* dt seconds pass.
Tick(dt) ==
  /\ since_sync < sync_interval
  /\ since_sync' = Min(since_sync + dt, sync_interval)
  /\ UNCHANGED <<habits, stats, db, user_states, buttons, nev, localVars>>
  /\ History

\* ---------------------------------------------------------------- handlers
\* build_day_menu: a toggle button for every habit started on or before d.
DayMenu(d, H) == {<<d, h>> : h \in {x \in DOMAIN H : d >= H[x].start_date}}

\* The handler returns (or error_handler swallowed its exception).
Finish(w) ==
  /\ pc' = [pc EXCEPT ![w] = "idle"]
  /\ ev' = [ev EXCEPT ![w] = NoEv]
  /\ data' = [data EXCEPT ![w] = EmptyMap]
  /\ hf' = [hf EXCEPT ![w] = EmptyMap]
  /\ new_id' = [new_id EXCEPT ![w] = ""]
  /\ outcome' = [outcome EXCEPT ![w] = "none"]
  /\ reply' = [reply EXCEPT ![w] = "none"]

\* The events that change the cache or the store count against the bound of
\* a run; those that only read the cache do not.
Cost(kind) == IF kind \in {"text", "toggle", "upload", "reload"} THEN 1 ELSE 0

\* telebot hands an update to an idle worker once polling has started.
Begin(w, maxEv, e, first) ==
  /\ pc["main"] = "polling"
  /\ pc[w] = "idle"
  /\ w = "w2" => pc["w1"] # "idle"
  /\ nev + Cost(e.kind) <= maxEv
  /\ nev' = nev + Cost(e.kind)
  /\ ev' = [ev EXCEPT ![w] = e]
  /\ pc' = [pc EXCEPT ![w] = first]
  /\ UNCHANGED <<cacheVars, db, user_states, buttons,
                 data, hf, new_id, tx, it, rows, outcome, reply>>
  /\ History

\* /start, /upload, /reload
BeginStart(w, maxEv) == Begin(w, maxEv, [NoEv EXCEPT !.kind = "start"], "r_data")
BeginUpload(w, maxEv) == Begin(w, maxEv, [NoEv EXCEPT !.kind = "upload"], "s_connect")
BeginReload(w, maxEv) == Begin(w, maxEv, [NoEv EXCEPT !.kind = "reload"], "l_connect")
\* The calendar's buttons: month_/back_, add_habit, day_<date>
BeginNav(w, maxEv) == Begin(w, maxEv, [NoEv EXCEPT !.kind = "nav"], "cb_data")
BeginPlus(w, maxEv) == Begin(w, maxEv, [NoEv EXCEPT !.kind = "plus"], "cb_data")
BeginDay(w, maxEv) ==
  \E d \in Days : Begin(w, maxEv, [NoEv EXCEPT !.kind = "day", !.date = d], "cb_data")
\* A toggle_<date>_<id> button of a day menu in the chat
BeginToggle(w, maxEv) ==
  \E b \in buttons :
    Begin(w, maxEv, [NoEv EXCEPT !.kind = "toggle", !.date = b[1], !.hid = b[2]], "cb_data")
\* A text message "name" or "name/dd.mm.yyyy"
BeginText(w, maxEv) ==
  /\ User \in user_states
  /\ Cardinality(DOMAIN habits) < MaxHabits
  /\ \E n \in Names, t \in DateTexts :
       Begin(w, maxEv, [NoEv EXCEPT !.kind = "text", !.name = n, !.dtxt = t], "a_check")

\* data = data_cache.get_stats()
GetStats(w, from, to) ==
  /\ pc[w] = from
  /\ data' = [data EXCEPT ![w] = stats]
  /\ pc' = [pc EXCEPT ![w] = to]
  /\ UNCHANGED <<cacheVars, envVars, ev, hf, new_id, tx, it, rows, outcome, reply>>
  /\ History

\* habits_full = data_cache.get_habits_full()
GetHabitsFull(w, from, to) ==
  /\ pc[w] = from
  /\ hf' = [hf EXCEPT ![w] = habits]
  /\ pc' = [pc EXCEPT ![w] = to]
  /\ UNCHANGED <<cacheVars, envVars, ev, data, new_id, tx, it, rows, outcome, reply>>
  /\ History

\* send_welcome, and the re-render that ends force_upload, reload_cache and
\* handle_text: the calendar and the summary are built from (data, habits_full).
RenderGetStats(w) == GetStats(w, "r_data", "r_hf")
RenderGetHabits(w) == GetHabitsFull(w, "r_hf", "r_send")
RenderSend(w) ==
  /\ pc[w] = "r_send"
  /\ Finish(w)
  /\ UNCHANGED <<cacheVars, envVars, tx, it, rows>>
  /\ History

\* callback_handler
CallbackGetStats(w) == GetStats(w, "cb_data", "cb_hf")
CallbackGetHabits(w) ==
  GetHabitsFull(w, "cb_hf", CASE ev[w].kind = "plus" -> "cb_plus"
                              [] ev[w].kind = "day" -> "cb_day"
                              [] ev[w].kind = "toggle" -> "tg_update"
                              [] OTHER -> "cb_nav")

\* call.data == "add_habit": user_states[call.from_user.id] = "waiting_habit"
CallbackPlus(w) ==
  /\ pc[w] = "cb_plus"
  /\ user_states' = user_states \cup {User}
  /\ Finish(w)
  /\ UNCHANGED <<cacheVars, db, buttons, nev, tx, it, rows>>
  /\ History

\* A day_ branch that makes sure the day has a bucket in the cache.
CallbackDayTouchesCache(w) ==
  /\ pc[w] = "cb_day"
  /\ buttons' = buttons \cup DayMenu(ev[w].date, hf[w])
  /\ stats' = Put(stats, ev[w].date, Get(stats, ev[w].date, EmptyMap))
  /\ Finish(w)
  /\ UNCHANGED <<habits, since_sync, db, user_states, nev, tx, it, rows>>
  /\ History

\* day_<date>: the day menu replaces the message
CallbackDay(w) ==
  /\ pc[w] = "cb_day"
  /\ buttons' = buttons \cup DayMenu(ev[w].date, hf[w])
  /\ Finish(w)
  /\ UNCHANGED <<cacheVars, db, user_states, nev, tx, it, rows>>
  /\ History

\* back_ / month_: the calendar replaces the message
CallbackNav(w) ==
  /\ pc[w] = "cb_nav"
  /\ Finish(w)
  /\ UNCHANGED <<cacheVars, envVars, tx, it, rows>>
  /\ History

\* DataCache.update_stat
update_stat(S, date, habit_id, status) ==
  Put(S, date, Put(Get(S, date, EmptyMap), habit_id, status))

\* A handler that takes every record for absent.
status_unread(w) == FALSE

\* toggle_: current_status = data.get(date_str, {}).get(habit_id, False)
current_status(w) == Get(Get(data[w], ev[w].date, EmptyMap), ev[w].hid, FALSE)

\* data_cache.update_stat(date_str, habit_id, not current_status)
ToggleUpdate(w) ==
  /\ pc[w] = "tg_update"
  /\ stats' = update_stat(stats, ev[w].date, ev[w].hid, ~current_status(w))
  /\ pc' = [pc EXCEPT ![w] = "tg_data"]
  /\ UNCHANGED <<habits, since_sync, envVars, ev, data, hf, new_id, tx, it, rows,
                 outcome, reply>>
  /\ History

ToggleGetStats(w) == GetStats(w, "tg_data", "tg_render")

ToggleRender(w) ==
  /\ pc[w] = "tg_render"
  /\ buttons' = buttons \cup DayMenu(ev[w].date, hf[w])
  /\ Finish(w)
  /\ UNCHANGED <<cacheVars, db, user_states, nev, tx, it, rows>>
  /\ History

\* force_upload / reload_cache: _sync_to_db and load_from_db catch their own
\* exceptions, so the call returns normally and the success reply is sent.
UploadReply(w) ==
  /\ pc[w] = "up_reply"
  /\ reply' = [reply EXCEPT ![w] = "uploaded"]
  /\ pc' = [pc EXCEPT ![w] = "r_data"]
  /\ UNCHANGED <<cacheVars, envVars, ev, data, hf, new_id, tx, it, rows, outcome>>
  /\ History

ReloadReply(w) ==
  /\ pc[w] = "rl_reply"
  /\ reply' = [reply EXCEPT ![w] = "reloaded"]
  /\ pc' = [pc EXCEPT ![w] = "r_data"]
  /\ UNCHANGED <<cacheVars, envVars, ev, data, hf, new_id, tx, it, rows, outcome>>
  /\ History

\* handle_text: if user_states.get(message.from_user.id) == "waiting_habit"
TextCheck(w) ==
  /\ pc[w] = "a_check"
  /\ IF User \in user_states
     THEN /\ pc' = [pc EXCEPT ![w] = "a_hf"]
          /\ UNCHANGED <<ev, data, hf, new_id, outcome, reply>>
     ELSE Finish(w)
  /\ UNCHANGED <<cacheVars, envVars, tx, it, rows>>
  /\ History

\* if len(text_parts) == 2: the message carries a date.
has_date(w) == Len(ev[w].dtxt) = 1

\* strptime(date_str, "%d.%m.%Y").strftime("%Y%m%d"), or today's date.
start_date(w) == IF has_date(w) THEN FormatDate(ev[w].dtxt[1]) ELSE Today

\* habits_full = get_habits_full(); new_id = str(len(habits_full) + 1); the
\* text is split, and a date that strptime refuses is answered with
\* "Неверный формат даты" before the handler returns.
TextParse(w) ==
  /\ pc[w] = "a_hf"
  /\ IF has_date(w) /\ ~ValidDate(ev[w].dtxt[1])
     THEN /\ reply' = [reply EXCEPT ![w] = "date_error"]
          /\ pc' = [pc EXCEPT ![w] = "a_reject"]
          /\ UNCHANGED <<ev, data, hf, new_id, outcome>>
     ELSE /\ hf' = [hf EXCEPT ![w] = habits]
          /\ new_id' = [new_id EXCEPT ![w] = IdStr(Cardinality(DOMAIN habits) + 1)]
          /\ pc' = [pc EXCEPT ![w] = "a_add"]
          /\ UNCHANGED <<ev, data, outcome, reply>>
  /\ UNCHANGED <<cacheVars, envVars, tx, it, rows>>
  /\ History

\* return after the error message
TextReject(w) ==
  /\ pc[w] = "a_reject"
  /\ Finish(w)
  /\ UNCHANGED <<cacheVars, envVars, tx, it, rows>>
  /\ History

\* DataCache.add_habit
add_habit(H, habit_id, name, start) ==
  Put(H, habit_id, [name |-> name, start_date |-> start])

\* data_cache.add_habit(new_id, habit_name, start_date)
TextAdd(w) ==
  /\ pc[w] = "a_add"
  /\ habits' = add_habit(habits, new_id[w], ev[w].name, start_date(w))
  /\ pc' = [pc EXCEPT ![w] = "a_pop"]
  /\ UNCHANGED <<stats, since_sync, envVars, ev, data, hf, new_id, tx, it, rows,
                 outcome, reply>>
  /\ History

\* user_states.pop(message.from_user.id): KeyError when another handler has
\* popped it already, which error_handler logs.
TextPop(w) ==
  /\ pc[w] = "a_pop"
  /\ IF User \in user_states
     THEN /\ user_states' = user_states \ {User}
          /\ pc' = [pc EXCEPT ![w] = "r_data"]
          /\ UNCHANGED <<ev, data, hf, new_id, outcome, reply>>
     ELSE /\ Finish(w)
          /\ UNCHANGED user_states
  /\ UNCHANGED <<cacheVars, db, buttons, nev, tx, it, rows>>
  /\ History

\* send_welcome's body, and the re-render that ends force_upload,
\* reload_cache and handle_text.
RenderStep(w) ==
  \/ RenderGetStats(w)
  \/ RenderGetHabits(w)
  \/ RenderSend(w)

\* callback_handler's first two statements.
CallbackStep(w) ==
  \/ CallbackGetStats(w)
  \/ CallbackGetHabits(w)

\* /start and the calendar's month_ / back_ buttons.
ViewStep(w, maxEv) ==
  \/ BeginStart(w, maxEv)
  \/ BeginNav(w, maxEv)
  \/ CallbackNav(w)

\* The add-habit flow: the add_habit button, then the text message.
AddStep(w, maxEv) ==
  \/ BeginPlus(w, maxEv)
  \/ CallbackPlus(w)
  \/ BeginText(w, maxEv)
  \/ TextCheck(w)
  \/ TextParse(w)
  \/ TextReject(w)
  \/ TextAdd(w)
  \/ TextPop(w)

\* A day_ button, then the toggle_ buttons of its menu.
ToggleStep(w, maxEv) ==
  \/ BeginDay(w, maxEv)
  \/ CallbackDay(w)
  \/ BeginToggle(w, maxEv)
  \/ ToggleUpdate(w)
  \/ ToggleGetStats(w)
  \/ ToggleRender(w)

\* /upload
UploadStep(w, maxEv) ==
  \/ BeginUpload(w, maxEv)
  \/ SyncStep(w)
  \/ UploadReply(w)

\* /reload
ReloadStep(w, maxEv) ==
  \/ BeginReload(w, maxEv)
  \/ LoadStep(w)
  \/ ReloadReply(w)

\* The main thread's start-up load, the background thread and the clock.
SystemStep ==
  \/ LoadStep("main")
  \/ BgWake
  \/ SyncStep("bg")
  \/ Tick(Quantum)

\* ------------------------------------------------------------ the calendar
\* A date is the number YYYYMMDD.
Year(d) == d \div 10000
Month(d) == (d \div 100) % 100
Day(d) == d % 100
Ymd(y, m, d) == y * 10000 + m * 100 + d
Max(a, b) == IF a >= b THEN a ELSE b

\* datetime.datetime.strptime(s, "%Y%m%d") succeeds.
ValidYmd(s) == ValidDate(<<Day(s), Month(s), Year(s)>>)

\* date + datetime.timedelta(days=1) and date - datetime.timedelta(days=1)
NextDay(d) ==
  IF Day(d) < DaysIn(Month(d), Year(d)) THEN d + 1
  ELSE IF Month(d) < 12 THEN Ymd(Year(d), Month(d) + 1, 1)
  ELSE Ymd(Year(d) + 1, 1, 1)
PrevDay(d) ==
  IF Day(d) > 1 THEN d - 1
  ELSE IF Month(d) > 1
       THEN Ymd(Year(d), Month(d) - 1, DaysIn(Month(d) - 1, Year(d)))
  ELSE Ymd(Year(d) - 1, 12, 31)

\* date + datetime.timedelta(days=n)
RECURSIVE AddDays(_, _)
AddDays(d, n) ==
  IF n = 0 THEN d
  ELSE IF n > 0 THEN AddDays(NextDay(d), n - 1)
  ELSE AddDays(PrevDay(d), n + 1)

\* date.weekday(): 0 for Monday .. 6 for Sunday, by the day-of-week
\* congruence of the Gregorian calendar.
MonthKey(m) == <<0, 3, 2, 5, 0, 3, 5, 1, 4, 6, 2, 4>>[m]
weekday(d) ==
  LET y == IF Month(d) < 3 THEN Year(d) - 1 ELSE Year(d)
  IN (y + (y \div 4) - (y \div 100) + (y \div 400)
        + MonthKey(Month(d)) + Day(d) + 6) % 7

\* ------------------------------------------------------- the screen functions
\* The habit's start date, START_DATE when the stored text is no date.
habit_start_date(start_date_str) ==
  IF ValidYmd(start_date_str) THEN start_date_str ELSE START_DATE

\* A record test that takes a missing record for a kept day.
recorded_not_false(snap, date_str, h_id) ==
  ~(date_str \in DOMAIN snap /\ h_id \in DOMAIN snap[date_str]
      /\ ~snap[date_str][h_id])

\* date_str in data and h_id in data[date_str] and data[date_str][h_id]
recorded_true(snap, date_str, h_id) ==
  /\ date_str \in DOMAIN snap
  /\ h_id \in DOMAIN snap[date_str]
  /\ snap[date_str][h_id]

\* calc_streaks' loop `while current_date < today` and the counters it ends
\* with.
RECURSIVE streak_until(_, _, _, _, _, _)
streak_until(snap, h_id, current_date, today, current_streak, max_streak) ==
  IF current_date < today
  THEN IF recorded_true(snap, current_date, h_id)
       THEN streak_until(snap, h_id, NextDay(current_date), today,
                         current_streak + 1, Max(max_streak, current_streak + 1))
       ELSE streak_until(snap, h_id, NextDay(current_date), today, 0, max_streak)
  ELSE [current |-> current_streak, best |-> max_streak]

\* A count that stops at yesterday.
streaks_until_yesterday(snap, h_id, start_date_str, today) ==
  streak_until(snap, h_id, habit_start_date(start_date_str), today, 0, 0)

\* The body of calc_streaks' loop over the habits: the streaks it computes
\* for one habit, today's record counted after the loop over the days.
habit_streaks(snap, h_id, start_date_str, today) ==
  LET r == streak_until(snap, h_id, habit_start_date(start_date_str), today, 0, 0)
  IN IF recorded_true(snap, today, h_id)
     THEN [current |-> r.current + 1, best |-> Max(r.best, r.current + 1)]
     ELSE r

\* results[habit_name] = streaks, habit after habit: the last habit that
\* carries a name leaves its streaks under it.
LastId(K) == CHOOSE k \in K : \A x \in K : IdNum(k) >= IdNum(x)
calc_streaks(snap, habits_full, today) ==
  LET last(n) == LastId({h \in DOMAIN habits_full : habits_full[h].name = n})
  IN [n \in {habits_full[h].name : h \in DOMAIN habits_full} |->
        habit_streaks(snap, last(n), habits_full[last(n)].start_date, today)]

\* A loop over the habits that asks every habit of every day.
RECURSIVE habits_done_all(_, _, _, _)
habits_done_all(day_data, d, habits_full, left) ==
  IF left = {} THEN TRUE
  ELSE LET h_id == FirstId(left)
       IN IF ~Get(day_data, h_id, FALSE) THEN FALSE
          ELSE habits_done_all(day_data, d, habits_full, left \ {h_id})

\* is_week_gold's loop over the habits for one day d; FALSE is its
\* `return False`.
RECURSIVE habits_done(_, _, _, _)
habits_done(day_data, d, habits_full, left) ==
  IF left = {} THEN TRUE
  ELSE LET h_id == FirstId(left)
       IN IF /\ d >= habit_start_date(habits_full[h_id].start_date)
             /\ ~Get(day_data, h_id, FALSE)
          THEN FALSE
          ELSE habits_done(day_data, d, habits_full, left \ {h_id})

\* is_week_gold's loop over monday + i, i in range(7)
RECURSIVE week_done(_, _, _, _)
week_done(monday, i, snap, habits_full) ==
  IF i = 7 THEN TRUE
  ELSE LET d == AddDays(monday, i)
       IN IF d \notin DOMAIN snap THEN FALSE
          ELSE IF ~habits_done(snap[d], d, habits_full, DOMAIN habits_full)
          THEN FALSE
          ELSE week_done(monday, i + 1, snap, habits_full)

is_week_gold(date, snap, habits_full) ==
  week_done(AddDays(date, 0 - weekday(date)), 0, snap, habits_full)

\* A classification that marks every day without a kept habit as failed.
day_status_emoji_strict(date, snap, habits_full, today) ==
  IF date < START_DATE THEN ""
  ELSE IF is_week_gold(date, snap, habits_full) THEN "star"
  ELSE IF date \notin DOMAIN snap THEN "red"
  ELSE LET active == {h \in DOMAIN habits_full :
                        date >= habit_start_date(habits_full[h].start_date)}
           total_active == Cardinality(active)
           done == Cardinality({h \in active : Get(snap[date], h, FALSE)})
       IN IF total_active = 0 THEN ""
          ELSE IF done = 0 THEN "red"
          ELSE IF done = total_active THEN "green"
          ELSE "yellow"

\* day_status_emoji: "" for no glyph, else the star, the red, the yellow or
\* the green one.
day_status_emoji(date, snap, habits_full, today) ==
  IF date < START_DATE THEN ""
  ELSE IF is_week_gold(date, snap, habits_full) THEN "star"
  ELSE IF date \notin DOMAIN snap THEN (IF date < today THEN "red" ELSE "")
  ELSE LET active == {h \in DOMAIN habits_full :
                        date >= habit_start_date(habits_full[h].start_date)}
           total_active == Cardinality(active)
           done == Cardinality({h \in active : Get(snap[date], h, FALSE)})
       IN IF total_active = 0 THEN ""
          ELSE IF done = 0 THEN (IF date < today THEN "red" ELSE "")
          ELSE IF done = total_active THEN "green"
          ELSE "yellow"

\* ---------------------------------------------------------- screen inputs
\* The week the inputs are about: Monday 2025-09-29 .. Sunday 2025-10-05.
ScreenMonday == AddDays(START_DATE, 2)
ScreenDay(i) == AddDays(ScreenMonday, i)
ScreenIds == {IdStr(i) : i \in 1..ScreenHabits}

\* habits_full: habits "1".."n"; the first is named "a" and starts on the
\* day before START_DATE, the Monday, the Tuesday or the Thursday, the
\* others start on the Monday.
HabitMaps ==
  LET starts == {PrevDay(START_DATE), ScreenDay(0), ScreenDay(1), ScreenDay(3)}
      values == [name : Names, start_date : starts]
      maps == UNION {[{IdStr(i) : i \in 1..n} -> values] : n \in 0..ScreenHabits}
  IN {H \in maps :
        /\ "1" \in DOMAIN H => H["1"].name = "a"
        /\ \A h \in DOMAIN H \ {"1"} : H[h].start_date = ScreenDay(0)}

\* A day's bucket: the records of habits "1".."m" for some m.
DayBuckets ==
  UNION {[{IdStr(i) : i \in 1..m} -> BOOLEAN] : m \in 0..ScreenHabits}

\* data: any buckets on the first ScreenDays days of the week, and on the
\* rest of the week either no bucket or every habit kept.
Snapshots ==
  LET early == {ScreenDay(i) : i \in 0..(ScreenDays - 1)}
      late == {ScreenDay(i) : i \in ScreenDays..6}
      heads == UNION {[P -> DayBuckets] : P \in SUBSET early}
      kept == [h \in ScreenIds |-> TRUE]
  IN heads \cup {[d \in DOMAIN f \cup late |-> IF d \in late THEN kept ELSE f[d]] :
                   f \in heads}

\* datetime.date.today() when the screen is built: the Wednesday or the
\* Thursday.
ScreenTodays == {ScreenDay(2), ScreenDay(3)}
\* The days whose glyph is asked for, and the days whose week is.
EmojiDates == {PrevDay(START_DATE), ScreenDay(1), ScreenDay(3)}
GoldDates == {ScreenDay(1), ScreenDay(5)}

progVars == <<cacheVars, envVars, localVars, pre, seen, rt, tg, heap>>

InitScreen ==
  /\ Construction
  /\ buttons = {}
  /\ heap = NoHeap
  /\ \E t \in ScreenTodays, S \in Snapshots, H \in HabitMaps :
       scr = [NoScr EXCEPT !.today = t, !.data = S, !.habits_full = H]

\* build_main_text: streaks = calc_streaks(data, habits_full)
CalcStreaks ==
  /\ scr.fn = "none"
  /\ scr' = [scr EXCEPT !.fn = "calc_streaks",
                        !.out = calc_streaks(scr.data, scr.habits_full, scr.today)]
  /\ UNCHANGED progVars

\* is_week_gold(date, data, habits_full)
WeekGold(date) ==
  /\ scr.fn = "none"
  /\ scr' = [scr EXCEPT !.fn = "is_week_gold", !.date = date,
                        !.out = is_week_gold(date, scr.data, scr.habits_full)]
  /\ UNCHANGED progVars

\* build_calendar: emoji = day_status_emoji(date_str, data, habits_full)
DayStatusEmoji(date) ==
  /\ scr.fn = "none"
  /\ scr' = [scr EXCEPT !.fn = "day_status_emoji", !.date = date,
                        !.out = day_status_emoji(date, scr.data, scr.habits_full,
                                                 scr.today)]
  /\ UNCHANGED progVars

\* ------------------------------------------------- the accessors' results
\* The cache's mappings are dicts of dicts.  heap.dicts is the sequence of the
\* dict objects there are, an object's number being its identity; an outer
\* dict maps its keys to the numbers of its inner dicts.  The variables
\* habits and stats are what the cache's dicts hold.

\* The mapping an outer dict stands for: key -> content of the inner dict.
Contents(dicts, root) == [k \in DOMAIN dicts[root] |-> dicts[dicts[root][k]]]

\* New dict objects for a mapping M: one per inner dict, then the outer one,
\* which is the last object of the result.
Alloc(dicts, M) ==
  LET K == DOMAIN M
      n == Cardinality(K)
      idx == CHOOSE f \in [K -> 1..n] : \A a, b \in K : a # b => f[a] # f[b]
      inner == [i \in 1..n |-> M[CHOOSE k \in K : idx[k] = i]]
      outer == [k \in K |-> Len(dicts) + idx[k]]
  IN dicts \o inner \o <<outer>>

\* A new outer dict over the inner dicts of the old one.
shallow_copy(dicts, root) == Append(dicts, dicts[root])

\* {key: value.copy() for key, value in d.items()}
snapshot_copy(dicts, root) == Alloc(dicts, Contents(dicts, root))

\* {habit_id: habit_data["name"] for habit_id, habit_data in d.items()}
names_copy(dicts, root) ==
  Append(dicts, [k \in DOMAIN dicts[root] |-> dicts[dicts[root][k]].name])

\* The caches the accessors are called on: one or two habits, and no
\* bucket or today's bucket with records of one or two habits.
AliasCaches ==
  {[habits |-> H, stats |-> S] :
     H \in {[i \in K |-> [name |-> "a", start_date |-> START_DATE]] :
              K \in {{"1"}, {"1", "2"}}},
     S \in {EmptyMap} \cup {(Today :> b) : b \in [{"1"} -> BOOLEAN]
                                              \cup [{"1", "2"} -> BOOLEAN]}}

\* The cache after the start-up load, and nothing called yet.
InitAlias ==
  /\ \E c \in AliasCaches :
       /\ habits = c.habits
       /\ stats = c.stats
       /\ db = [habits |-> HabitRows(c.habits), stats |-> StatRows(c.stats)]
       /\ LET hd == Alloc(<<>>, c.habits)
              sd == Alloc(hd, c.stats)
          IN heap = [NoHeap EXCEPT !.dicts = sd, !.habits = Len(hd),
                                   !.stats = Len(sd)]
  /\ since_sync = sync_interval
  /\ buttons = {}
  /\ pc = [t \in Threads |-> CASE t = "main" -> "polling"
                               [] t = "bg" -> "sleep"
                               [] OTHER -> "idle"]
  /\ outcome = [t \in Threads |-> IF t = "main" THEN "loaded" ELSE "none"]
  /\ pre = [t \in Threads |-> NoSnap]
  /\ NothingHandled
  /\ scr = NoScr

\* What a step of SpecAlias leaves of the cache and of the caller's mapping.
AliasFrame ==
  /\ habits' = Contents(heap'.dicts, heap'.habits)
  /\ stats' = Contents(heap'.dicts, heap'.stats)
  /\ UNCHANGED <<since_sync, envVars, pc, ev, new_id, tx, it, rows, outcome,
                 reply, pre, seen, rt, tg, scr>>

\* DataCache.get_habits
AliasGetHabits(w) ==
  /\ heap.kind = "none"
  /\ LET d == names_copy(heap.dicts, heap.habits)
     IN heap' = [heap EXCEPT !.dicts = d, !.ret = Len(d), !.kind = "get_habits"]
  /\ UNCHANGED <<data, hf>>
  /\ AliasFrame

\* DataCache.get_habits_full
AliasGetHabitsFull(w) ==
  /\ heap.kind = "none"
  /\ LET d == snapshot_copy(heap.dicts, heap.habits)
     IN /\ heap' = [heap EXCEPT !.dicts = d, !.ret = Len(d),
                                !.kind = "get_habits_full"]
        /\ hf' = [hf EXCEPT ![w] = Contents(d, Len(d))]
  /\ UNCHANGED data
  /\ AliasFrame

\* DataCache.get_stats
AliasGetStats(w) ==
  /\ heap.kind = "none"
  /\ LET d == snapshot_copy(heap.dicts, heap.stats)
     IN /\ heap' = [heap EXCEPT !.dicts = d, !.ret = Len(d), !.kind = "get_stats"]
        /\ data' = [data EXCEPT ![w] = Contents(d, Len(d))]
  /\ UNCHANGED hf
  /\ AliasFrame

\* The caller's mapping as it is after a change of the dicts.
CallerSees(w, d) ==
  /\ hf' = IF heap.kind = "get_habits_full"
           THEN [hf EXCEPT ![w] = Contents(d, heap.ret)] ELSE hf
  /\ data' = IF heap.kind = "get_stats"
             THEN [data EXCEPT ![w] = Contents(d, heap.ret)] ELSE data

\* The caller changes the mapping it got, at the outer level: del m[k]
CallerDeletes(w, k) ==
  /\ heap.kind # "none"
  /\ heap.muts < MaxMutations
  /\ k \in DOMAIN heap.dicts[heap.ret]
  /\ LET m == heap.dicts[heap.ret]
         d == [heap.dicts EXCEPT ![heap.ret] = [x \in DOMAIN m \ {k} |-> m[x]]]
     IN /\ heap' = [heap EXCEPT !.dicts = d, !.muts = @ + 1]
        /\ CallerSees(w, d)
  /\ AliasFrame

\* The caller changes the mapping it got, at the inner level: m[k][f] = v
CallerAssigns(w, k, f, v) ==
  /\ heap.kind \in {"get_habits_full", "get_stats"}
  /\ heap.muts < MaxMutations
  /\ k \in DOMAIN heap.dicts[heap.ret]
  /\ LET o == heap.dicts[heap.ret][k]
         d == [heap.dicts EXCEPT ![o] = Put(heap.dicts[o], f, v)]
     IN /\ heap' = [heap EXCEPT !.dicts = d, !.muts = @ + 1]
        /\ CallerSees(w, d)
  /\ AliasFrame

\* The keys of the mapping the caller got.
ReturnedKeys == IF heap.ret = 0 THEN {} ELSE DOMAIN heap.dicts[heap.ret]

\* The items a caller can assign in an inner dict of the mapping it got.
InnerItems ==
  IF heap.kind = "get_stats" THEN {"1", "2"} \X BOOLEAN
  ELSE {"name"} \X Names

\* ---------------------------------------------------------- specifications
\* One worker thread next to the background thread: the handlers run one
\* after the other, every kind of event arrives.
Next ==
  \/ SystemStep
  \/ \E w \in OneWorker :
       \/ ViewStep(w, MaxEvents)
       \/ AddStep(w, MaxEvents)
       \/ ToggleStep(w, MaxEvents)
       \/ UploadStep(w, MaxEvents)
       \/ ReloadStep(w, MaxEvents)
       \/ CallbackStep(w)
       \/ RenderStep(w)
Spec == Init /\ [][Next]_vars

\* The same threads; the user opens day menus, toggles and reloads.
NextStats ==
  \/ SystemStep
  \/ \E w \in OneWorker :
       \/ ToggleStep(w, MaxEventsStats)
       \/ ReloadStep(w, MaxEventsStats)
       \/ CallbackStep(w)
       \/ RenderStep(w)
SpecStats == Init /\ [][NextStats]_vars

\* Two worker threads handle the events while the background thread sleeps.
NextPool ==
  \/ LoadStep("main")
  \/ \E w \in Workers :
       \/ ViewStep(w, MaxEventsPool)
       \/ AddStep(w, MaxEventsPool)
       \/ ToggleStep(w, MaxEventsPool)
       \/ UploadStep(w, MaxEventsPool)
       \/ ReloadStep(w, MaxEventsPool)
       \/ CallbackStep(w)
       \/ RenderStep(w)
SpecPool == Init /\ [][NextPool]_vars

\* The threads of Spec under the scheduling of the operating system: a thread
\* that can take its next step takes it, and time passes.  The user is free
\* to send nothing.
NextFair ==
  \/ SystemStep
  \/ \E w \in OneWorker :
       \/ AddStep(w, MaxEventsFair)
       \/ ToggleStep(w, MaxEventsFair)
       \/ ReloadStep(w, MaxEventsFair)
       \/ CallbackStep(w)
       \/ RenderStep(w)

\* The steps of a handler that is running.
ContinueStep(w) ==
  \/ CallbackStep(w)
  \/ RenderStep(w)
  \/ CallbackPlus(w)
  \/ CallbackDay(w)
  \/ ToggleUpdate(w)
  \/ ToggleGetStats(w)
  \/ ToggleRender(w)
  \/ TextCheck(w)
  \/ TextParse(w)
  \/ TextReject(w)
  \/ TextAdd(w)
  \/ TextPop(w)
  \/ LoadStep(w)
  \/ ReloadReply(w)

Fairness ==
  /\ WF_vars(LoadStep("main"))
  /\ WF_vars(BgWake \/ SyncStep("bg"))
  /\ WF_vars(Tick(Quantum))
  /\ \A w \in OneWorker : WF_vars(ContinueStep(w))
FairSpec == Init /\ [][NextFair]_vars /\ Fairness

\* The functions the screens are built with, applied to bounded arguments.
NextScreen ==
  \/ CalcStreaks
  \/ \E date \in GoldDates : WeekGold(date)
  \/ \E date \in EmojiDates : DayStatusEmoji(date)
SpecScreen == InitScreen /\ [][NextScreen]_vars

\* The accessors called on a loaded cache, and a caller that changes what it
\* got.
NextAlias ==
  \E w \in OneWorker :
    \/ AliasGetHabits(w)
    \/ AliasGetHabitsFull(w)
    \/ AliasGetStats(w)
    \/ \E k \in ReturnedKeys : CallerDeletes(w, k)
    \/ \E k \in ReturnedKeys, i \in InnerItems :
         CallerAssigns(w, k, i[1], i[2])
SpecAlias == InitAlias /\ [][NextAlias]_vars

\* ------------------------------------------------------------------ claims
SyncFailures == {"failed_store", "failed_fk", "failed_runtime"}

\* The cache as sets of rows, the form in which two caches are compared.
CacheRows(H, S) == [habits |-> HabitRows(H), stats |-> StatRows(S)]

\* data.get(date, {}).get(habit_id, False): an absent record reads as FALSE.
Status(S, d, h) == Get(Get(S, d, EmptyMap), h, FALSE)

\* C1: a _sync_to_db followed by a load_from_db, with a store that answers
\* and no mutation in between, leaves the cache with the habit rows and the
\* stat rows it had before the sync.
C1_RoundTrip ==
  [][(/\ rt.phase = "loading"
      /\ ReturnsFromLoad(rt.by)
      /\ outcome'[rt.by] = "loaded")
     => CacheRows(habits', stats') = CacheRows(pre[rt.by][1], pre[rt.by][2])]_vars

\* C2: a step in which a sync fails changes neither the store nor last_sync;
\* the store changes only in the commit of a sync, to the tables of that
\* transaction; last_sync is set only by a sync that has committed.
C2_SyncAllOrNothing ==
  [][/\ \A t \in Threads :
          (ReturnsFromSync(t) /\ outcome'[t] \in SyncFailures)
          => (db' = db /\ since_sync' = since_sync)
     /\ db' # db => \E t \in Threads : Commits(t) /\ db' = tx[t]
     /\ since_sync' < since_sync
          => \E t \in Threads : pc[t] = "s_stamp" /\ ReturnsFromSync(t)]_vars

\* A sync of the background thread has failed on its INSERT INTO stats, after
\* its DELETEs and INSERTs, and the store still holds its rows.
C2_Witness ==
  /\ outcome["bg"] = "failed_fk"
  /\ pc["bg"] = "sleep"
  /\ db.habits # {}
  /\ db # CacheRows(habits, stats)

\* C3: when load_from_db fails, at whichever store call, habits and stats
\* are what they were when it was called.
C3_FailedLoadKeepsCache ==
  [][\A t \in Threads :
       (ReturnsFromLoad(t) /\ outcome'[t] = "load_failed")
       => <<habits', stats'>> = pre[t]]_vars

\* C4: a handler that reads habits through get_habits_full while a load runs
\* in another thread gets the habits from before the load or the habits of
\* the store, never an emptied or partly filled mapping.
C4_ReadersSeeWholeLoads ==
  [][\A w \in Workers, t \in Threads :
       (/\ pc[w] \in {"r_hf", "cb_hf"}
        /\ pc'[w] # pc[w]
        /\ pc[t] \in LoadPcs)
       => \/ hf'[w] = pre[t][1]
          \/ HabitRows(hf'[w]) = db.habits]_vars

\* C5: the rows a sync commits, when only add_habit and update_stat (no
\* load) changed the cache while it ran, are the rows of the cache as it
\* was at one moment between the call of that sync and its commit.
C5_SyncWritesOneSnapshot ==
  [][\A t \in Threads :
       (Commits(t) /\ NoSnap \notin seen[t])
       => \E c \in seen[t] : db' = CacheRows(c[1], c[2])]_vars

\* C6: if from some point on no handler runs and no sync of the background
\* thread fails for an unreachable store, then the background thread again
\* and again completes a sync after which the store holds the cache's rows.
C6_EventuallyPersisted ==
  <>[]((\A w \in OneWorker : pc[w] = "idle") /\ outcome["bg"] # "failed_store")
  => []<>(outcome["bg"] = "committed" /\ db = CacheRows(habits, stats))

\* C7: a wake cycle of the background loop whose sync failed does not end
\* the loop: the loop calls _sync_to_db again in a later wake cycle.
C7_FailedCycleIsRetried ==
  (outcome["bg"] \in SyncFailures) ~> (pc["bg"] = "s_connect")

\* The background thread sleeps after a sync that failed.
C7_Witness ==
  /\ pc["bg"] = "sleep"
  /\ outcome["bg"] \in SyncFailures
  /\ since_sync >= sync_interval

\* C8: the background loop calls _sync_to_db only when at least sync_interval
\* seconds have passed since last_sync.
C8_SyncOnlyWhenDue ==
  [][(pc["bg"] = "sleep" /\ pc'["bg"] \in SyncPcs)
     => since_sync >= sync_interval]_vars

\* After a sync that committed, the background thread sleeps through a wake
\* cycle in which less than sync_interval has passed.
C8_Witness ==
  /\ pc["bg"] = "sleep"
  /\ \E t \in Threads : outcome[t] = "committed"
  /\ 0 < since_sync /\ since_sync < sync_interval

\* C9: after two toggles of one (date, id) that follow each other, every
\* (date, id) has the status it had before the first, an absent record
\* counting as FALSE.
C9_TwoTogglesRestore ==
  tg.n = 2 =>
    \A d \in DOMAIN stats \cup DOMAIN tg.before \cup {tg.date} :
      \A h \in DOMAIN Get(stats, d, EmptyMap)
                \cup DOMAIN Get(tg.before, d, EmptyMap) \cup {tg.hid} :
        Status(stats, d, h) = Status(tg.before, d, h)

\* Two toggles of one (date, id) have been applied, and the day holds the
\* record of another habit.
C9_Witness ==
  /\ tg.n = 2
  /\ tg.date \in DOMAIN stats
  /\ \E h \in DOMAIN stats[tg.date] : h # tg.hid

\* C10: add_habit in handle_text stores the habit under an id that is not in
\* the cache, and changes no habit that is there.
C10_AddsUnderNewId ==
  [][\A w \in Workers :
       Adds(w) => /\ new_id[w] \notin DOMAIN habits
                  /\ \A h \in DOMAIN habits : habits'[h] = habits[h]]_vars

\* What follows the name in the message is there and is no date dd.mm.yyyy.
Malformed(e) ==
  e.dtxt # <<>> /\ ~(Len(e.dtxt) = 1 /\ ValidDate(e.dtxt[1]))

\* C11: handle_text creates no habit from a message whose date text is
\* malformed: it answers with the error and leaves habits and stats alone.
C11_MalformedDateRejected ==
  [][\A w \in Workers :
       (pc[w] = "a_hf" /\ pc'[w] # pc[w] /\ Malformed(ev[w]))
       => (reply'[w] = "date_error" /\ pc'[w] = "a_reject")]_vars

\* C12: /force_upload answers "uploaded" only when its _sync_to_db committed,
\* and /force_reload answers "reloaded" only when its load_from_db replaced
\* the cache.
C12_RepliesTellTheOutcome ==
  \A w \in Workers :
    /\ reply[w] = "uploaded" => outcome[w] = "committed"
    /\ reply[w] = "reloaded" => outcome[w] = "loaded"

\* A step of worker w in a handler invocation for an event of one of kinds.
Handles(w, kinds) ==
  /\ StepOf(w)
  /\ \/ ev[w].kind \in kinds
     \/ pc[w] = "idle" /\ ev'[w].kind \in kinds

\* C13: no step of send_welcome or of callback_handler's add_habit, day_,
\* back_ and month_ branches changes habits, stats or last_sync.
C13_ViewsLeaveCacheAlone ==
  [][\A w \in Workers :
       Handles(w, {"start", "nav", "day", "plus"})
       => UNCHANGED <<habits, stats, since_sync>>]_vars

\* A day menu has been built over a cache with records, and no event that
\* writes has been handled.
C13_Witness ==
  /\ buttons # {}
  /\ stats # EmptyMap
  /\ nev = 0
  /\ \A w \in Workers : pc[w] = "idle"

\* C14: the get_stats that follows update_stat in the toggle_ branch returns
\* the status just written, and the get_habits_full that follows add_habit
\* in handle_text returns the habit just added.
C14_ReadYourWrites ==
  [][\A w \in Workers :
       /\ (pc[w] = "tg_data" /\ pc'[w] = "tg_render")
          => /\ ev[w].date \in DOMAIN data'[w]
             /\ ev[w].hid \in DOMAIN data'[w][ev[w].date]
             /\ data'[w][ev[w].date][ev[w].hid] = ~current_status(w)
       /\ (ev[w].kind = "text" /\ pc[w] = "r_hf" /\ pc'[w] = "r_send")
          => /\ new_id[w] \in DOMAIN hf'[w]
             /\ hf'[w][new_id[w]] =
                  [name |-> ev[w].name, start_date |-> start_date(w)]]_vars

\* The streaks calc_streaks computes for habit h of the screen's arguments,
\* and the days on which the arguments record h as kept.
StreaksFor(h) ==
  habit_streaks(scr.data, h, scr.habits_full[h].start_date, scr.today)
TrueDays(S, h) == {d \in DOMAIN S : h \in DOMAIN S[d] /\ S[d][h]}
RunFrom(start, k) == {AddDays(start, i) : i \in 0..(k - 1)}

RunningAfter(h, d) ==
  streak_until(scr.data, h, habit_start_date(scr.habits_full[h].start_date),
               NextDay(d), 0, 0).current

\* C16: when the true records of a habit between its start_date and today
\* are a run of n days but for one day strictly inside it and before today,
\* on which the record is false or missing, calc_streaks' running streak is
\* 0 after that day and best is the length of the longer of the two parts.
C16_GapBreaksStreak ==
  scr.fn = "calc_streaks" =>
    \A h \in DOMAIN scr.habits_full, i \in 0..6 :
      LET start == scr.habits_full[h].start_date
          lived == {d \in TrueDays(scr.data, h) : start <= d /\ d <= scr.today}
      IN start <= ScreenDay(i) =>
           \A n \in 3..7 :
             AddDays(ScreenDay(i), n - 1) <= scr.today =>
               \A j \in 1..(n - 2) :
                 LET gap == AddDays(ScreenDay(i), j)
                 IN lived = RunFrom(ScreenDay(i), n) \ {gap}
                    => /\ RunningAfter(h, gap) = 0
                       /\ StreaksFor(h).best = Max(j, n - 1 - j)

\* The only habit was kept on the Monday, the Tuesday and the Thursday
\* (today) and has no bucket on the Wednesday: best 2, current 1.
C16_Witness ==
  /\ scr.fn = "calc_streaks"
  /\ DOMAIN scr.habits_full = {"1"}
  /\ scr.habits_full["1"].start_date = ScreenDay(0)
  /\ scr.today = ScreenDay(3)
  /\ ScreenDay(2) \notin DOMAIN scr.data
  /\ TrueDays(scr.data, "1") = RunFrom(ScreenDay(0), 4) \ {ScreenDay(2)}
  /\ scr.out["a"] = [current |-> 1, best |-> 2]

\* The arguments' data without the records of habit h dated before its
\* start_date.
WithoutEarlier(S, h, start) ==
  [d \in DOMAIN S |->
     IF d < start THEN [x \in DOMAIN S[d] \ {h} |-> S[d][x]] ELSE S[d]]

\* C17: the streaks calc_streaks computes for a habit do not depend on the
\* records dated before the habit's start_date.
C17_EarlierDaysNeverCount ==
  scr.fn = "calc_streaks" =>
    \A h \in DOMAIN scr.habits_full :
      LET start == scr.habits_full[h].start_date
      IN habit_streaks(WithoutEarlier(scr.data, h, start), h, start, scr.today)
           = StreaksFor(h)

\* C18: calc_streaks returns one entry per habit of habits_full, and the
\* entry of a habit holds the streaks computed from that habit's records and
\* start_date.
C18_OneEntryPerHabit ==
  scr.fn = "calc_streaks" =>
    /\ Cardinality(DOMAIN scr.out) = Cardinality(DOMAIN scr.habits_full)
    /\ \A h \in DOMAIN scr.habits_full :
         scr.out[scr.habits_full[h].name] = StreaksFor(h)

\* The days that have the same Monday as date.
MondayOf(d) == AddDays(d, 0 - weekday(d))
WeekOf(date) ==
  {d \in {AddDays(date, i) : i \in -6..6} : MondayOf(d) = MondayOf(date)}

C20_NoGlyphWithoutActiveHabit ==
  scr.fn = "day_status_emoji" =>
    ((\A h \in DOMAIN scr.habits_full :
        scr.habits_full[h].start_date > scr.date)
     => scr.out = "")

\* At least one habit has started by the screen's date, none of them has a
\* true record on it, and the date's week is not gold.
NoneDone ==
  /\ \E h \in DOMAIN scr.habits_full : scr.habits_full[h].start_date <= scr.date
  /\ \A h \in DOMAIN scr.habits_full :
       scr.habits_full[h].start_date <= scr.date
       => ~recorded_true(scr.data, scr.date, h)
  /\ ~is_week_gold(scr.date, scr.data, scr.habits_full)

\* C21 as stated: for every date with a started habit, none done and no gold
\* week, day_status_emoji returns the failure glyph when the date is before
\* today and no glyph otherwise.
C21_NoneDoneEveryDate ==
  (scr.fn = "day_status_emoji" /\ NoneDone)
  => scr.out = (IF scr.date < scr.today THEN "red" ELSE "")

\* C21 for the dates from START_DATE on: with a started habit, none done
\* and no gold week, day_status_emoji returns the failure glyph when the
\* date is before today and no glyph otherwise, whether the day has no
\* bucket or only false records.
C21_NoneDone ==
  (scr.fn = "day_status_emoji" /\ NoneDone /\ scr.date >= START_DATE)
  => scr.out = (IF scr.date < scr.today THEN "red" ELSE "")

\* A past day with a bucket that holds only a false record of a started
\* habit is classified as failed.
C21_Witness ==
  /\ scr.fn = "day_status_emoji"
  /\ NoneDone
  /\ scr.date >= START_DATE
  /\ scr.date < scr.today
  /\ scr.date \in DOMAIN scr.data
  /\ \E h \in DOMAIN scr.data[scr.date] : ~scr.data[scr.date][h]
  /\ scr.out = "red"

\* C22: a change the caller makes to the mapping get_habits,
\* get_habits_full or get_stats returned, at the outer or at the inner
\* level, leaves the cache's habits and stats as they were.
C22_ResultsAreCopies ==
  [][heap'.muts # heap.muts => UNCHANGED <<habits, stats>>]_vars

\* The caller has changed an inner dict of the mapping get_stats returned,
\* which now differs from the cache's stats.
C22_Witness ==
  /\ heap.kind = "get_stats"
  /\ heap.muts > 0
  /\ DOMAIN data["w1"] = DOMAIN stats
  /\ data["w1"] # stats

\* C23: while the start-up load_from_db has not filled the cache and no
\* handler has changed or reloaded it, a commit of the background sync
\* leaves the store's rows as they were.
C23_NoSyncBeforeHydration ==
  [][(Commits("bg") /\ outcome["main"] # "loaded" /\ nev = 0) => db' = db]_vars

\* C24: while no load_from_db is between its first and its last statement,
\* every habit id that has a record in stats is an id of habits, and no
\* _sync_to_db fails on the foreign key of stats.
C24_StatsReferToHabits ==
  /\ (\A t \in Threads : pc[t] \notin LoadPcs)
     => \A d \in DOMAIN stats : DOMAIN stats[d] \subseteq DOMAIN habits
  /\ \A t \in Threads : outcome[t] # "failed_fk"

\* C25: once the handlers of two toggles of one (date, id) have both
\* finished, whether they ran one after the other or at the same time, the
\* record of (date, id) is what it was before the first.
C25_NoLostToggle ==
  (tg.n = 2 /\ \A w \in Workers : pc[w] = "idle")
  => Status(stats, tg.date, tg.hid) = Status(tg.before, tg.date, tg.hid)

====
